---- MODULE Spec2Model ----
(***************************************************************************)
(* A model of src/metrics.cpp: the AtomicTimer, the shared metrics state   *)
(* (next-refresh deadline, message box, init message, tracked blocks), the *)
(* orphan reconciliation of printMetrics and the refresh loop of           *)
(* ThreadShowMetricsScreen.                                                *)
(*                                                                         *)
(* Time is GetTime(): whole seconds, never running backwards.  Every       *)
(* thread is a program counter; a step is one statement (or one critical   *)
(* section that nothing can interleave with).                              *)
(***************************************************************************)
EXTENDS Integers, Sequences, FiniteSets, TLC

\* ---------------------------------------------------------------- bounds
\* GetTime() is followed up to this second.
MaxTime == 3
\* At most this many AtomicTimer::start() calls are followed.
MaxStarts == 3
\* At most this many increments of the counter that rate() reads.
MaxCount == 1
\* -metricsrefreshtime is taken from 0..MaxRefresh seconds.
MaxRefresh == 2
\* At most this many messages are posted.
MaxPosts == 7
\* The chain is followed up to this height.
MaxHeight == 3
\* increment() calls on transactionsValidated
MaxIncrements == 4
\* messages posted while the alternation of passes and waits is observed
MaxWaitPosts == 1
\* local heights 0..MaxLocalHeight are estimated from (and height 100)
MaxLocalHeight == 13
\* the tip's median time is up to MaxTipAhead target spacings later than
\* GetTime() and up to MaxTipLag target spacings earlier
MaxTipAhead == 7
MaxTipLag == 8
\* COINBASE_MATURITY is 100 in the program; it is scaled down with the chain.
COINBASE_MATURITY == 2

NoThread == "none"

VARIABLES
  now,                   \* GetTime()
  \* AtomicTimer miningTimer (lines 33-76, 86)
  threads, start_time, total_time,
  mtx,                   \* holder of AtomicTimer::mtx
  tpc,                   \* per caller: the timer method it is inside
  tret,                  \* what the last running()/threadCount()/rate() call returned
  solutionTargetChecks,  \* the AtomicCounter rate() divides
  \* history of the timer, kept for the properties only
  starts,                \* completed start() calls
  effStops,              \* completed stop() calls that found a start to match
  excessSeen,            \* some stop() found no start to match
  activeTime,            \* seconds during which at least one start was unmatched
  \* ThreadShowMetricsScreen (lines 434-521)
  spc,                   \* where the metrics screen thread is
  nRefresh,              \* -metricsrefreshtime
  mining,                \* -gen
  nNextRefresh,          \* the synchronized next-refresh deadline (line 81)
  interruptRequested,    \* boost thread interruption requested for the screen thread
  loaded,                \* line 92
  initMessage,           \* line 91
  pendingTrigger,        \* history: TriggerRefresh wrote the deadline and no pass has started since
  \* message box (line 90)
  messageBox,            \* the list, front first
  msgLock,               \* holder of messageBox's mutex
  nPosted,               \* history: messages pushed so far; the n-th message is n
  wpc,                   \* per worker: where it is in metrics_ThreadSafeMessageBox / TriggerRefresh
  \* mined-block tracking (lines 78-101, 326-361)
  cs_main, cs_metrics,   \* holders of the two critical sections
  trackedLock,           \* holder of trackedBlocks' mutex
  trackedBlocks,         \* the list, front first
  minedBlocks,           \* the AtomicCounter
  kpc,                   \* per miner: where it is in TrackMinedBlock, and with which hash
  it,                    \* printMetrics: position of the iterator in trackedBlocks
  tipHeight,             \* printMetrics: chainActive.Height() as read at line 338
  immature, mature, mined, orphaned,   \* printMetrics locals (lines 330-333)
  mapBlockIndex,         \* hashes the block index knows
  chainActive,           \* hashes on the active chain
  chainHeight,           \* chainActive.Height()
  \* history of the tracking, kept for the properties only
  recorded,              \* hashes of completed TrackMinedBlock calls
  erased,                \* number of entries the reconciliation has erased
  passKept,              \* trackedBlocks as the current pass found it
  \* AtomicCounter transactionsValidated (line 82)
  transactionsValidated, \* the counter's value
  cpc,                   \* per validating thread: whether it is inside increment()
  entered,               \* per validating thread: the value it found on entering
  nCalls,                \* history: increment() calls made so far
  overlapped,            \* history: some increment() entered while another was inside
  lastGet,               \* what the last get() returned
  \* printStats' sync-progress line (lines 226-228) and EstimateNetHeightInner
  estHeight,             \* height, chainActive.Height() as read at line 219
  estTip,                \* tipmediantime as read at line 220
  estCpHeight,           \* heightLastCheckpoint
  estCpTime,             \* timeLastCheckpoint
  estNow,                \* GetTime() as read at line 132
  estIBD,                \* IsInitialBlockDownload()
  epc,                   \* where printStats is
  netheight,             \* line 227
  downloadPercent,       \* line 228
  \* history of TriggerRefresh, kept for the properties only
  awaiting,              \* workers whose deadline write no pass has started after
  \* the network's critical section (printStats line 217, printMiningStatus line 265)
  cs_vNodes,             \* holder of cs_vNodes
  \* history of the current render pass, kept for the properties only and
  \* cleared when the pass ends at line 511
  passRecon,             \* reconciliations completed since the pass started
  passLoaded,            \* loaded as the pass found it
  initShown              \* printInitMessage printed the init message in this pass

timerVars == <<threads, start_time, total_time, mtx, tpc, tret,
               solutionTargetChecks, starts, effStops, excessSeen, activeTime>>
schedVars == <<spc, nRefresh, mining, nNextRefresh, interruptRequested,
               loaded, initMessage, pendingTrigger>>
msgVars == <<messageBox, msgLock, nPosted, wpc>>
lockVars == <<cs_main, cs_metrics, trackedLock>>
trackVars == <<trackedBlocks, minedBlocks, kpc, recorded>>
passVars == <<it, tipHeight, immature, mature, mined, orphaned, erased, passKept>>
chainVars == <<mapBlockIndex, chainActive, chainHeight>>
reconVars == <<lockVars, trackVars, passVars, chainVars>>

counterVars == <<transactionsValidated, cpc, entered, nCalls, overlapped, lastGet>>
estVars == <<estHeight, estTip, estCpHeight, estCpTime, estNow, estIBD, epc,
             netheight, downloadPercent>>
auxVars == <<counterVars, estVars, awaiting, cs_vNodes, passRecon, passLoaded, initShown>>
nonCounterVars == <<now, timerVars, schedVars, msgVars, reconVars, estVars, awaiting,
                   cs_vNodes, passRecon, passLoaded, initShown>>
nonEstVars == <<now, timerVars, schedVars, msgVars, reconVars, counterVars, awaiting,
               cs_vNodes, passRecon, passLoaded, initShown>>

vars == <<now, timerVars, schedVars, msgVars, reconVars, auxVars>>

\* ------------------------------------------------------------ AtomicTimer
TimerCallers == {"m1", "m2"}
TimerOps == {"start", "stop", "running", "threadCount", "rate"}

\* GetTime() advances; activeTime counts the seconds during which some
\* start is unmatched.
Tick ==
  /\ now < MaxTime
  /\ now' = now + 1
  /\ activeTime' = IF starts - effStops > 0 THEN activeTime + 1 ELSE activeTime
  /\ UNCHANGED <<threads, start_time, total_time, mtx, tpc, tret,
                 solutionTargetChecks, starts, effStops, excessSeen>>
  /\ UNCHANGED <<schedVars, msgVars, reconVars>>
  /\ UNCHANGED auxVars

\* std::unique_lock<std::mutex> lock(mtx) at the head of every method.
TimerLock(c, op) ==
  /\ tpc[c] = "idle"
  /\ mtx = NoThread
  /\ op = "start" => starts < MaxStarts
  /\ mtx' = c
  /\ tpc' = [tpc EXCEPT ![c] = op]
  /\ UNCHANGED <<now, threads, start_time, total_time, tret,
                 solutionTargetChecks, starts, effStops, activeTime, excessSeen>>
  /\ UNCHANGED <<schedVars, msgVars, reconVars>>
  /\ UNCHANGED auxVars

\* the lock's destructor on return
TimerReturn(c) ==
  /\ mtx' = NoThread
  /\ tpc' = [tpc EXCEPT ![c] = "idle"]
  /\ UNCHANGED <<schedVars, msgVars, reconVars>>
  /\ UNCHANGED auxVars

\* start(): if (threads < 1) start_time = GetTime();
StartTime(th, st, t) == IF th < 1 THEN t ELSE st

\* AtomicTimer::start body
start(c) ==
  /\ tpc[c] = "start" /\ mtx = c
  /\ start_time' = StartTime(threads, start_time, now)
  /\ threads' = threads + 1
  /\ starts' = starts + 1
  /\ TimerReturn(c)
  /\ UNCHANGED <<now, total_time, tret, solutionTargetChecks, effStops,
                 activeTime, excessSeen>>

\* a stop() that decrements only while another caller is still active
StopThreadsOffByOne(th) == IF th > 1 THEN th - 1 ELSE th

\* stop(): if (threads > 0) --threads;  threads is unsigned and the guard
\* keeps the decrement from wrapping.
StopThreads(th) == IF th > 0 THEN th - 1 ELSE th

\* a stop() that adds its span on every effective call
StopTotalEveryStop(th, st, tt, t) == IF th > 0 THEN tt + (t - st) ELSE tt

\* a stop() that forgets to ignore excess calls
StopTotalNoGuard(th, st, tt, t) == IF th - 1 < 1 THEN tt + (t - st) ELSE tt

\* stop(): inside the guard, after the decrement,
\* if (threads < 1) total_time += GetTime() - start_time;
StopTotal(th, st, tt, t) ==
  IF th > 0 /\ th - 1 < 1 THEN tt + (t - st) ELSE tt

\* AtomicTimer::stop body
stop(c) ==
  /\ tpc[c] = "stop" /\ mtx = c
  /\ threads' = StopThreads(threads)
  /\ total_time' = StopTotal(threads, start_time, total_time, now)
  /\ effStops' = IF starts - effStops > 0 THEN effStops + 1 ELSE effStops
  /\ excessSeen' = (excessSeen \/ starts - effStops = 0)
  /\ TimerReturn(c)
  /\ UNCHANGED <<now, start_time, tret, solutionTargetChecks, starts, activeTime>>

\* AtomicTimer::running body
running(c) ==
  /\ tpc[c] = "running" /\ mtx = c
  /\ tret' = [op |-> "running", val |-> threads > 0]
  /\ TimerReturn(c)
  /\ UNCHANGED <<now, threads, start_time, total_time,
                 solutionTargetChecks, starts, effStops, activeTime, excessSeen>>

\* AtomicTimer::threadCount body
threadCount(c) ==
  /\ tpc[c] = "threadCount" /\ mtx = c
  /\ tret' = [op |-> "threadCount", val |-> threads]
  /\ TimerReturn(c)
  /\ UNCHANGED <<now, threads, start_time, total_time,
                 solutionTargetChecks, starts, effStops, activeTime, excessSeen>>

\* a rate() that leaves the open interval out
RateDurationClosedOnly(th, st, tt, t) == tt

\* rate(): int64_t duration = total_time;
\* if (threads > 0) duration += GetTime() - start_time;
RateDuration(th, st, tt, t) == IF th > 0 THEN tt + (t - st) ELSE tt

\* rate(): return duration > 0 ? (double)count.get() / duration : 0;
\* The double count/duration is kept as the pair <<count, duration>>;
\* <<0, 1>> is the 0 of the else branch.
RateValue(count, duration) ==
  IF duration > 0 THEN <<count, duration>> ELSE <<0, 1>>

\* AtomicTimer::rate body
rate(c) ==
  /\ tpc[c] = "rate" /\ mtx = c
  /\ tret' = [op |-> "rate",
              val |-> RateValue(solutionTargetChecks,
                                RateDuration(threads, start_time, total_time, now))]
  /\ TimerReturn(c)
  /\ UNCHANGED <<now, threads, start_time, total_time,
                 solutionTargetChecks, starts, effStops, activeTime, excessSeen>>

\* AtomicCounter::increment on solutionTargetChecks, by any worker
IncrementChecks ==
  /\ solutionTargetChecks < MaxCount
  /\ solutionTargetChecks' = solutionTargetChecks + 1
  /\ UNCHANGED <<now, threads, start_time, total_time, mtx, tpc, tret,
                 starts, effStops, activeTime, excessSeen>>
  /\ UNCHANGED <<schedVars, msgVars, reconVars>>
  /\ UNCHANGED auxVars

\* ------------------------------------------------ ThreadShowMetricsScreen
\* lines 465-498: the top of the while loop, up to the call of printMetrics.
\* printStats and printMiningStatus only read.
RenderStart ==
  /\ spc = "top"
  /\ spc' = "printMetrics"
  /\ UNCHANGED <<nRefresh, mining, nNextRefresh, interruptRequested, loaded,
                 initMessage, pendingTrigger>>
  /\ UNCHANGED <<now, timerVars, msgVars, reconVars>>
  /\ passRecon' = 0 /\ passLoaded' = loaded
  /\ UNCHANGED <<counterVars, estVars, awaiting, cs_vNodes, initShown>>

\* printMetrics when (mining && loaded) is false: no reconciliation
PrintMetricsPlain ==
  /\ spc = "printMetrics"
  /\ ~(mining /\ loaded)
  /\ spc' = "printMessageBox"
  /\ UNCHANGED <<nRefresh, mining, nNextRefresh, interruptRequested, loaded,
                 initMessage, pendingTrigger>>
  /\ UNCHANGED <<now, timerVars, msgVars, reconVars>>
  /\ UNCHANGED auxVars

\* printMessageBox: takes the message box's lock, prints, releases
printMessageBox ==
  /\ spc = "printMessageBox"
  /\ msgLock = NoThread
  /\ spc' = "printInitMessage"
  /\ UNCHANGED <<nRefresh, mining, nNextRefresh, interruptRequested, loaded,
                 initMessage, pendingTrigger>>
  /\ UNCHANGED <<now, timerVars, msgVars, reconVars>>
  /\ UNCHANGED auxVars

\* a loaded that follows the init message
LoadedAfterFollowsMessage(ld, msg) == msg = "Done loading"

\* printInitMessage: loaded, once set, skips the section
LoadedAfter(ld, msg) == IF ld THEN ld ELSE msg = "Done loading"

printInitMessage ==
  /\ spc = "printInitMessage"
  /\ loaded' = LoadedAfter(loaded, initMessage)
  /\ spc' = "setDeadline"
  /\ UNCHANGED <<nRefresh, mining, nNextRefresh, interruptRequested,
                 initMessage, pendingTrigger>>
  /\ UNCHANGED <<now, timerVars, msgVars, reconVars>>
  /\ initShown' = ~loaded
  /\ UNCHANGED <<counterVars, estVars, awaiting, cs_vNodes, passRecon, passLoaded>>

\* a pass that ends with the deadline already due
SetDeadlineNoInterval ==
  /\ spc = "setDeadline"
  /\ nNextRefresh' = now
  /\ spc' = "waitCheck"
  /\ UNCHANGED <<nRefresh, mining, interruptRequested, loaded, initMessage,
                 pendingTrigger>>
  /\ UNCHANGED <<now, timerVars, msgVars, reconVars>>
  /\ passRecon' = 0 /\ passLoaded' = FALSE /\ initShown' = FALSE
  /\ UNCHANGED <<counterVars, estVars, awaiting, cs_vNodes>>

\* line 511: *nNextRefresh = GetTime() + nRefresh
SetDeadline ==
  /\ spc = "setDeadline"
  /\ nNextRefresh' = now + nRefresh
  /\ spc' = "waitCheck"
  /\ UNCHANGED <<nRefresh, mining, interruptRequested, loaded, initMessage,
                 pendingTrigger>>
  /\ UNCHANGED <<now, timerVars, msgVars, reconVars>>
  /\ passRecon' = 0 /\ passLoaded' = FALSE /\ initShown' = FALSE
  /\ UNCHANGED <<counterVars, estVars, awaiting, cs_vNodes>>

\* line 512, condition true: into the body of the wait loop
WaitContinue ==
  /\ spc = "waitCheck"
  /\ now < nNextRefresh
  /\ spc' = "interruption_point"
  /\ UNCHANGED <<nRefresh, mining, nNextRefresh, interruptRequested, loaded,
                 initMessage, pendingTrigger>>
  /\ UNCHANGED <<now, timerVars, msgVars, reconVars>>
  /\ UNCHANGED auxVars

\* line 512, condition false: lines 517-520 and the next render pass
WaitExit ==
  /\ spc = "waitCheck"
  /\ ~(now < nNextRefresh)
  /\ spc' = "top"
  /\ pendingTrigger' = FALSE
  /\ UNCHANGED <<nRefresh, mining, nNextRefresh, interruptRequested, loaded,
                 initMessage>>
  /\ UNCHANGED <<now, timerVars, msgVars, reconVars>>
  /\ awaiting' = {}
  /\ UNCHANGED <<counterVars, estVars, cs_vNodes, passRecon, passLoaded, initShown>>

\* line 513: boost::this_thread::interruption_point()
InterruptionPoint ==
  /\ spc = "interruption_point"
  /\ spc' = IF interruptRequested THEN "Cancelled" ELSE "MilliSleep"
  /\ UNCHANGED <<nRefresh, mining, nNextRefresh, interruptRequested, loaded,
                 initMessage, pendingTrigger>>
  /\ UNCHANGED <<now, timerVars, msgVars, reconVars>>
  /\ UNCHANGED auxVars

\* line 514: MilliSleep(200), a boost sleep and so an interruption point too
MilliSleep ==
  /\ spc = "MilliSleep"
  /\ spc' = IF interruptRequested THEN "Cancelled" ELSE "waitCheck"
  /\ UNCHANGED <<nRefresh, mining, nNextRefresh, interruptRequested, loaded,
                 initMessage, pendingTrigger>>
  /\ UNCHANGED <<now, timerVars, msgVars, reconVars>>
  /\ UNCHANGED auxVars

\* the owner of the screen thread interrupts it (shutdown)
Interrupt ==
  /\ ~interruptRequested
  /\ interruptRequested' = TRUE
  /\ UNCHANGED <<spc, nRefresh, mining, nNextRefresh, loaded, initMessage,
                 pendingTrigger>>
  /\ UNCHANGED <<now, timerVars, msgVars, reconVars>>
  /\ UNCHANGED auxVars

\* metrics_InitMessage (lines 193-196)
InitMessages == {"Loading", "Done loading"}

metrics_InitMessage(m) ==
  /\ initMessage # m
  /\ initMessage' = m
  /\ UNCHANGED <<spc, nRefresh, mining, nNextRefresh, interruptRequested,
                 loaded, pendingTrigger>>
  /\ UNCHANGED <<now, timerVars, msgVars, reconVars>>
  /\ UNCHANGED auxVars

\* ------------------------------ metrics_ThreadSafeMessageBox, TriggerRefresh
Workers == {"w1", "w2"}

\* size() > 5 at line 180
MessageBoxMax == 5

\* std::list::pop_back
pop_back(box) == SubSeq(box, 1, Len(box) - 1)

\* a trim that lets the box grow one entry further
TrimBoxLate(box) == IF Len(box) > MessageBoxMax + 1 THEN pop_back(box) ELSE box

\* lines 180-182
TrimBox(box) == IF Len(box) > MessageBoxMax THEN pop_back(box) ELSE box

\* line 178: messageBox.synchronize() takes the lock until the function returns
MessageBoxEnter(w) ==
  /\ wpc[w] = "idle"
  /\ msgLock = NoThread
  /\ nPosted < MaxPosts
  /\ msgLock' = w
  /\ wpc' = [wpc EXCEPT ![w] = "push_back"]
  /\ UNCHANGED <<messageBox, nPosted>>
  /\ UNCHANGED <<now, timerVars, schedVars, reconVars>>
  /\ UNCHANGED auxVars

\* line 179
PushBack(w) ==
  /\ wpc[w] = "push_back"
  /\ messageBox' = Append(messageBox, nPosted + 1)
  /\ nPosted' = nPosted + 1
  /\ wpc' = [wpc EXCEPT ![w] = "trim"]
  /\ UNCHANGED msgLock
  /\ UNCHANGED <<now, timerVars, schedVars, reconVars>>
  /\ UNCHANGED auxVars

\* lines 180-184, up to the call of TriggerRefresh
Trim(w) ==
  /\ wpc[w] = "trim"
  /\ messageBox' = TrimBox(messageBox)
  /\ wpc' = [wpc EXCEPT ![w] = "trigger_write"]
  /\ UNCHANGED <<msgLock, nPosted>>
  /\ UNCHANGED <<now, timerVars, schedVars, reconVars>>
  /\ UNCHANGED auxVars

\* TriggerRefresh called by any other thread
TriggerRefreshCall(w) ==
  /\ wpc[w] = "idle"
  /\ wpc' = [wpc EXCEPT ![w] = "trigger_write"]
  /\ UNCHANGED <<messageBox, msgLock, nPosted>>
  /\ UNCHANGED <<now, timerVars, schedVars, reconVars>>
  /\ UNCHANGED auxVars

\* line 150: *nNextRefresh = GetTime()
TriggerWrite(w) ==
  /\ wpc[w] = "trigger_write"
  /\ nNextRefresh' = now
  /\ pendingTrigger' = TRUE
  /\ wpc' = [wpc EXCEPT ![w] = "trigger_sleep"]
  /\ UNCHANGED <<messageBox, msgLock, nPosted>>
  /\ UNCHANGED <<spc, nRefresh, mining, interruptRequested, loaded, initMessage>>
  /\ UNCHANGED <<now, timerVars, reconVars>>
  /\ awaiting' = awaiting \cup {w}
  /\ UNCHANGED <<counterVars, estVars, cs_vNodes, passRecon, passLoaded, initShown>>

\* line 152 and the return; a message box call returns with it (line 185)
\* and only then gives up the message box's lock
TriggerReturn(w) ==
  /\ wpc[w] = "trigger_sleep"
  /\ wpc' = [wpc EXCEPT ![w] = "idle"]
  /\ msgLock' = IF msgLock = w THEN NoThread ELSE msgLock
  /\ UNCHANGED <<messageBox, nPosted>>
  /\ UNCHANGED <<now, timerVars, schedVars, reconVars>>
  /\ awaiting' = awaiting \ {w}
  /\ UNCHANGED <<counterVars, estVars, cs_vNodes, passRecon, passLoaded, initShown>>

\* ------------------------------------------------------- the block chain
\* Blocks this node mined, with mapBlockIndex[hash]->nHeight.  B and C
\* compete for the same height.
Hashes == {"A", "B", "C"}
HeightOf(h) == CASE h = "A" -> 1 [] h = "B" -> 2 [] h = "C" -> 2

\* GetBlockSubsidy(height, consensusParams), one amount per height
GetBlockSubsidy(height) == 2 ^ (height - 1)

\* the active chain holds one block per height, none above its tip
ChainShape(active, height) ==
  /\ \A g, h \in active : HeightOf(g) = HeightOf(h) => g = h
  /\ \A h \in active : HeightOf(h) <= height

\* A block enters the block index (under cs_main, by the validation code);
\* entries are never removed.
AddToBlockIndex(h) ==
  /\ cs_main = NoThread
  /\ h \notin mapBlockIndex
  /\ mapBlockIndex' = mapBlockIndex \cup {h}
  /\ UNCHANGED <<chainActive, chainHeight>>
  /\ UNCHANGED <<lockVars, trackVars, passVars>>
  /\ UNCHANGED <<now, timerVars, schedVars, msgVars>>
  /\ UNCHANGED auxVars

\* A block of the index is connected to the active chain (under cs_main),
\* as the new tip or in a reorganisation onto its branch.
ConnectBlock(h) ==
  /\ cs_main = NoThread
  /\ h \in mapBlockIndex
  /\ h \notin chainActive
  /\ ChainShape(chainActive \cup {h}, MaxHeight)
  /\ chainActive' = chainActive \cup {h}
  /\ chainHeight' = IF HeightOf(h) > chainHeight THEN HeightOf(h) ELSE chainHeight
  /\ UNCHANGED mapBlockIndex
  /\ UNCHANGED <<lockVars, trackVars, passVars>>
  /\ UNCHANGED <<now, timerVars, schedVars, msgVars>>
  /\ UNCHANGED auxVars

\* A reorganisation disconnects a block (under cs_main); another branch of
\* at least the same height is active instead.
DisconnectBlock(h) ==
  /\ cs_main = NoThread
  /\ h \in chainActive
  /\ chainActive' = chainActive \ {h}
  /\ UNCHANGED <<mapBlockIndex, chainHeight>>
  /\ UNCHANGED <<lockVars, trackVars, passVars>>
  /\ UNCHANGED <<now, timerVars, schedVars, msgVars>>
  /\ UNCHANGED auxVars

\* A block mined elsewhere becomes the tip (under cs_main).
ConnectForeignTip ==
  /\ cs_main = NoThread
  /\ chainHeight < MaxHeight
  /\ chainHeight' = chainHeight + 1
  /\ UNCHANGED <<mapBlockIndex, chainActive>>
  /\ UNCHANGED <<lockVars, trackVars, passVars>>
  /\ UNCHANGED <<now, timerVars, schedVars, msgVars>>
  /\ UNCHANGED auxVars

\* -------------------------------------------------------- TrackMinedBlock
Miners == {"k1", "k2"}
Screen == "screen"

\* hashes handed to TrackMinedBlock so far, by calls finished or under way
Handed ==
  recorded \cup
  {kpc[k].hash : k \in {j \in Miners : kpc[j].pc # "idle"}}

\* a TrackMinedBlock that does not take cs_metrics
TrackMayEnterUnlocked == TRUE

\* LOCK(cs_metrics) at line 98 can be taken
TrackMayEnter == cs_metrics = NoThread

\* line 98
TrackEnter(k, h) ==
  /\ kpc[k].pc = "idle"
  /\ h \notin Handed
  /\ TrackMayEnter
  /\ cs_metrics' = k
  /\ kpc' = [kpc EXCEPT ![k] = [pc |-> "increment", hash |-> h]]
  /\ UNCHANGED <<cs_main, trackedLock, trackedBlocks, minedBlocks, recorded>>
  /\ UNCHANGED <<passVars, chainVars>>
  /\ UNCHANGED <<now, timerVars, schedVars, msgVars>>
  /\ UNCHANGED auxVars

\* line 99
TrackIncrement(k) ==
  /\ kpc[k].pc = "increment"
  /\ minedBlocks' = minedBlocks + 1
  /\ kpc' = [kpc EXCEPT ![k].pc = "push_back"]
  /\ UNCHANGED <<lockVars, trackedBlocks, recorded>>
  /\ UNCHANGED <<passVars, chainVars>>
  /\ UNCHANGED <<now, timerVars, schedVars, msgVars>>
  /\ UNCHANGED auxVars

\* line 100, under the list's own lock, and the return, which gives up
\* cs_metrics
TrackPushBack(k) ==
  /\ kpc[k].pc = "push_back"
  /\ trackedLock = NoThread
  /\ trackedBlocks' = Append(trackedBlocks, kpc[k].hash)
  /\ recorded' = recorded \cup {kpc[k].hash}
  /\ cs_metrics' = IF cs_metrics = k THEN NoThread ELSE cs_metrics
  /\ kpc' = [kpc EXCEPT ![k].pc = "idle"]
  /\ UNCHANGED <<cs_main, trackedLock, minedBlocks>>
  /\ UNCHANGED <<passVars, chainVars>>
  /\ UNCHANGED <<now, timerVars, schedVars, msgVars>>
  /\ UNCHANGED auxVars

\* ------------------------------------- printMetrics: the orphan reconciliation
\* std::list::erase at position i
erase(list, i) == SubSeq(list, 1, i - 1) \o SubSeq(list, i + 1, Len(list))

\* line 344-345
OnActiveChain(hash) == hash \in mapBlockIndex /\ hash \in chainActive

\* a maturity test that is off by one
IsImmatureOffByOne(tip, height) == COINBASE_MATURITY - (tip - height) >= 0

\* line 348: std::max(0, COINBASE_MATURITY - (tipHeight - height)) > 0
IsImmature(tip, height) ==
  LET d == COINBASE_MATURITY - (tip - height)
  IN (IF d > 0 THEN d ELSE 0) > 0

\* a printMetrics that takes cs_metrics before cs_main
PrintMetricsLocksReversed == <<"cs_metrics", "cs_main">>

\* line 335: LOCK2(cs_main, cs_metrics); the critical sections in the order
\* in which LOCK2 takes them
PrintMetricsLocks == <<"cs_main", "cs_metrics">>

\* lines 326-335: the locals, and LOCK2 takes its first critical section
ReconLockMain ==
  /\ spc = "printMetrics"
  /\ mining /\ loaded
  /\ (IF PrintMetricsLocks[1] = "cs_main" THEN cs_main ELSE cs_metrics) = NoThread
  /\ cs_main' = IF PrintMetricsLocks[1] = "cs_main" THEN Screen ELSE cs_main
  /\ cs_metrics' = IF PrintMetricsLocks[1] = "cs_metrics" THEN Screen ELSE cs_metrics
  /\ immature' = 0 /\ mature' = 0
  /\ spc' = "lock_cs_metrics"
  /\ UNCHANGED <<trackedLock, it, tipHeight, mined, orphaned, erased, passKept>>
  /\ UNCHANGED <<nRefresh, mining, nNextRefresh, interruptRequested, loaded,
                 initMessage, pendingTrigger>>
  /\ UNCHANGED <<now, timerVars, msgVars, trackVars, chainVars>>
  /\ UNCHANGED auxVars

\* line 335: LOCK2 takes its second critical section
ReconLockMetrics ==
  /\ spc = "lock_cs_metrics"
  /\ (IF PrintMetricsLocks[2] = "cs_main" THEN cs_main ELSE cs_metrics) = NoThread
  /\ cs_main' = IF PrintMetricsLocks[2] = "cs_main" THEN Screen ELSE cs_main
  /\ cs_metrics' = IF PrintMetricsLocks[2] = "cs_metrics" THEN Screen ELSE cs_metrics
  /\ spc' = "synchronize"
  /\ UNCHANGED <<trackedLock, passVars>>
  /\ UNCHANGED <<nRefresh, mining, nNextRefresh, interruptRequested, loaded,
                 initMessage, pendingTrigger>>
  /\ UNCHANGED <<now, timerVars, msgVars, trackVars, chainVars>>
  /\ UNCHANGED auxVars

\* a reconciliation whose wait for the list's lock is an interruption point:
\* an interrupted screen thread stops there, inside LOCK2
ReconSynchronizeInterruptible ==
  \/ /\ spc = "synchronize"
     /\ interruptRequested
     /\ spc' = "Cancelled"
     /\ UNCHANGED <<lockVars, passVars>>
     /\ UNCHANGED <<nRefresh, mining, nNextRefresh, interruptRequested, loaded,
                    initMessage, pendingTrigger>>
     /\ UNCHANGED <<now, timerVars, msgVars, trackVars, chainVars>>
     /\ UNCHANGED auxVars
  \/ /\ ~interruptRequested
     /\ spc = "synchronize"
     /\ trackedLock = NoThread
     /\ trackedLock' = Screen
     /\ tipHeight' = chainHeight
     /\ it' = 1
     /\ passKept' = trackedBlocks
     /\ spc' = "loop"
     /\ UNCHANGED <<cs_main, cs_metrics, immature, mature, mined, orphaned, erased>>
     /\ UNCHANGED <<nRefresh, mining, nNextRefresh, interruptRequested, loaded,
                    initMessage, pendingTrigger>>
     /\ UNCHANGED <<now, timerVars, msgVars, trackVars, chainVars>>
     /\ UNCHANGED auxVars

\* lines 336-341: the list's lock, the tip height, the iterator at begin()
ReconSynchronize ==
  /\ spc = "synchronize"
  /\ trackedLock = NoThread
  /\ trackedLock' = Screen
  /\ tipHeight' = chainHeight
  /\ it' = 1
  /\ passKept' = trackedBlocks
  /\ spc' = "loop"
  /\ UNCHANGED <<cs_main, cs_metrics, immature, mature, mined, orphaned, erased>>
  /\ UNCHANGED <<nRefresh, mining, nNextRefresh, interruptRequested, loaded,
                 initMessage, pendingTrigger>>
  /\ UNCHANGED <<now, timerVars, msgVars, trackVars, chainVars>>
  /\ UNCHANGED auxVars

\* lines 342-353: the block is on the active chain; its subsidy is counted
ReconKeep ==
  /\ spc = "loop"
  /\ it <= Len(trackedBlocks)
  /\ OnActiveChain(trackedBlocks[it])
  /\ LET height == HeightOf(trackedBlocks[it])
         subsidy == GetBlockSubsidy(height)
     IN IF IsImmature(tipHeight, height)
          THEN immature' = immature + subsidy /\ mature' = mature
          ELSE mature' = mature + subsidy /\ immature' = immature
  /\ it' = it + 1
  /\ UNCHANGED <<lockVars, tipHeight, mined, orphaned, erased, passKept>>
  /\ UNCHANGED <<now, timerVars, schedVars, msgVars, trackVars, chainVars>>
  /\ UNCHANGED auxVars

\* lines 342-345, 354-356: the block is not; it is erased
ReconErase ==
  /\ spc = "loop"
  /\ it <= Len(trackedBlocks)
  /\ ~OnActiveChain(trackedBlocks[it])
  /\ trackedBlocks' = erase(trackedBlocks, it)
  /\ erased' = erased + 1
  /\ UNCHANGED <<lockVars, it, tipHeight, immature, mature, mined, orphaned, passKept>>
  /\ UNCHANGED <<minedBlocks, kpc, recorded>>
  /\ UNCHANGED <<now, timerVars, schedVars, msgVars, chainVars>>
  /\ UNCHANGED auxVars

\* lines 359-361: mined and orphaned, then the three locks are given up
ReconTally ==
  /\ spc = "loop"
  /\ ~(it <= Len(trackedBlocks))
  /\ mined' = minedBlocks
  /\ orphaned' = minedBlocks - Len(trackedBlocks)
  /\ trackedLock' = NoThread /\ cs_metrics' = NoThread /\ cs_main' = NoThread
  /\ spc' = "print_mined"
  /\ UNCHANGED <<it, tipHeight, immature, mature, erased, passKept>>
  /\ UNCHANGED <<nRefresh, mining, nNextRefresh, interruptRequested, loaded,
                 initMessage, pendingTrigger>>
  /\ UNCHANGED <<now, timerVars, msgVars, trackVars, chainVars>>
  /\ passRecon' = passRecon + 1
  /\ UNCHANGED <<counterVars, estVars, awaiting, cs_vNodes, passLoaded, initShown>>

\* lines 363-377: the totals are printed and printMetrics returns; its
\* locals are gone
ReconReturn ==
  /\ spc = "print_mined"
  /\ it' = 0 /\ tipHeight' = 0 /\ passKept' = <<>>
  /\ immature' = 0 /\ mature' = 0 /\ mined' = 0 /\ orphaned' = 0
  /\ spc' = "printMessageBox"
  /\ UNCHANGED <<lockVars, erased>>
  /\ UNCHANGED <<nRefresh, mining, nNextRefresh, interruptRequested, loaded,
                 initMessage, pendingTrigger>>
  /\ UNCHANGED <<now, timerVars, msgVars, trackVars, chainVars>>
  /\ UNCHANGED auxVars

\* ------------------------------------ printStats and printMiningStatus
\* The steps of lines 465-498 one at a time, with the locks they take.
schedRest == <<nRefresh, mining, nNextRefresh, interruptRequested, loaded,
               initMessage, pendingTrigger>>
timerFields == <<threads, start_time, total_time, tpc, solutionTargetChecks,
                 starts, effStops, excessSeen, activeTime>>
passRest == <<counterVars, estVars, awaiting, passRecon, passLoaded, initShown>>

\* lines 465-495: the top of the while loop; if (loaded) printStats comes first
RenderTop ==
  /\ spc = "top"
  /\ spc' = IF loaded THEN "printStats" ELSE "printMetrics"
  /\ passRecon' = 0 /\ passLoaded' = loaded
  /\ UNCHANGED schedRest
  /\ UNCHANGED <<now, timerVars, msgVars, reconVars>>
  /\ UNCHANGED <<counterVars, estVars, awaiting, cs_vNodes, initShown>>

\* printStats, line 217: LOCK2(cs_main, cs_vNodes) takes cs_main first
PrintStatsLockMain ==
  /\ spc = "printStats"
  /\ cs_main = NoThread
  /\ cs_main' = Screen
  /\ spc' = "printStats_cs_vNodes"
  /\ UNCHANGED <<cs_metrics, trackedLock, trackVars, passVars, chainVars>>
  /\ UNCHANGED schedRest
  /\ UNCHANGED <<now, timerVars, msgVars, auxVars>>

\* printStats, line 217: LOCK2 takes cs_vNodes second
PrintStatsLockNodes ==
  /\ spc = "printStats_cs_vNodes"
  /\ cs_vNodes = NoThread
  /\ cs_vNodes' = Screen
  /\ spc' = "printStats_read"
  /\ UNCHANGED schedRest
  /\ UNCHANGED <<now, timerVars, msgVars, reconVars, passRest>>

\* printStats, lines 218-222: the reads, and the end of the block gives up
\* both critical sections
PrintStatsRead ==
  /\ spc = "printStats_read"
  /\ cs_main' = NoThread
  /\ cs_vNodes' = NoThread
  /\ spc' = "GetLocalSolPS"
  /\ UNCHANGED <<cs_metrics, trackedLock, trackVars, passVars, chainVars>>
  /\ UNCHANGED schedRest
  /\ UNCHANGED <<now, timerVars, msgVars, passRest>>

\* printStats, line 224: GetLocalSolPS() is miningTimer.rate(), which locks
\* the timer for the length of the call; lines 226-240 print the height
\* (the arithmetic of lines 227-228 is EstimateNetHeight and DownloadPercent)
PrintStatsRate ==
  /\ spc = "GetLocalSolPS"
  /\ mtx = NoThread
  /\ tret' = [op |-> "rate",
              val |-> RateValue(solutionTargetChecks,
                                RateDuration(threads, start_time, total_time, now))]
  /\ spc' = IF mining THEN "running" ELSE "printMiningStatus"
  /\ UNCHANGED <<mtx, timerFields>>
  /\ UNCHANGED schedRest
  /\ UNCHANGED <<now, msgVars, reconVars, auxVars>>

\* printStats, line 242: mining && miningTimer.running()
PrintStatsRunning ==
  /\ spc = "running"
  /\ mtx = NoThread
  /\ tret' = [op |-> "running", val |-> threads > 0]
  /\ spc' = "printMiningStatus"
  /\ UNCHANGED <<mtx, timerFields>>
  /\ UNCHANGED schedRest
  /\ UNCHANGED <<now, msgVars, reconVars, auxVars>>

\* printMiningStatus, lines 257-259: miningTimer.threadCount()
PrintMiningStatusThreads ==
  /\ spc = "printMiningStatus"
  /\ mining
  /\ mtx = NoThread
  /\ tret' = [op |-> "threadCount", val |-> threads]
  /\ spc' = IF threads > 0 THEN "printMetrics" ELSE "printMiningStatus_cs_vNodes"
  /\ UNCHANGED <<mtx, timerFields>>
  /\ UNCHANGED schedRest
  /\ UNCHANGED <<now, msgVars, reconVars, auxVars>>

\* printMiningStatus, lines 264-267: LOCK(cs_vNodes) around vNodes.empty()
PrintMiningStatusNodes ==
  /\ spc = "printMiningStatus_cs_vNodes"
  /\ cs_vNodes = NoThread
  /\ spc' = "printMetrics"
  /\ UNCHANGED schedRest
  /\ UNCHANGED <<now, timerVars, msgVars, reconVars, auxVars>>

\* printMiningStatus, lines 277-280: not mining
PrintMiningStatusNotMining ==
  /\ spc = "printMiningStatus"
  /\ ~mining
  /\ spc' = "printMetrics"
  /\ UNCHANGED schedRest
  /\ UNCHANGED <<now, timerVars, msgVars, reconVars, auxVars>>

\* ---------------------------------------------------------- AtomicCounter
Validators == {"v1", "v2", "v3"}

\* an increment that stores the value it loaded on entry, plus one
LoadThenStore(cur, seen) == seen + 1

\* AtomicCounter::increment: the atomic ++value
FetchAdd(cur, seen) == cur + 1

\* a validating thread calls transactionsValidated.increment()
CounterCall(v) ==
  /\ cpc[v] = "idle"
  /\ nCalls < MaxIncrements
  /\ cpc' = [cpc EXCEPT ![v] = "increment"]
  /\ entered' = [entered EXCEPT ![v] = transactionsValidated]
  /\ nCalls' = nCalls + 1
  /\ overlapped' = (overlapped \/ \E u \in Validators : cpc[u] = "increment")
  /\ UNCHANGED <<transactionsValidated, lastGet>>
  /\ UNCHANGED nonCounterVars

\* the increment takes effect and the call returns
CounterIncrement(v) ==
  /\ cpc[v] = "increment"
  /\ transactionsValidated' = FetchAdd(transactionsValidated, entered[v])
  /\ cpc' = [cpc EXCEPT ![v] = "idle"]
  /\ entered' = [entered EXCEPT ![v] = 0]
  /\ UNCHANGED <<nCalls, overlapped, lastGet>>
  /\ UNCHANGED nonCounterVars

\* printMetrics, line 317: int validatedCount = transactionsValidated.get();
CounterGet ==
  /\ lastGet' = transactionsValidated
  /\ UNCHANGED <<transactionsValidated, cpc, entered, nCalls, overlapped>>
  /\ UNCHANGED nonCounterVars

\* ------------------------------------------------- EstimateNetHeightInner
\* CBlockIndex::nMedianTimeSpan
nMedianTimeSpan == 11
\* chainParams.GetConsensus().nPowTargetSpacing, in seconds
nPowTargetSpacing == 150
\* chainParams.GenesisBlock().nTime, in seconds after some origin
GenesisTime == 1500

Abs(a) == IF a < 0 THEN 0 - a ELSE a

\* C++ integer division, and the conversion of a double n/d to int: both
\* truncate toward zero
TruncDiv(n, d) ==
  IF (n >= 0) = (d > 0) THEN Abs(n) \div Abs(d) ELSE 0 - (Abs(n) \div Abs(d))

\* lines 126-128
MedianHeight(height) ==
  IF height > nMedianTimeSpan
    THEN height - (1 + TruncDiv(nMedianTimeSpan - 1, 2))
    ELSE TruncDiv(height, 2)

\* lines 129-131: the double checkpointSpacing as the fraction <<num, den>>
CheckpointSpacing(medianHeight, tipmediantime, heightLastCheckpoint, timeLastCheckpoint, genesisTime) ==
  IF medianHeight > heightLastCheckpoint
    THEN <<tipmediantime - timeLastCheckpoint, medianHeight - heightLastCheckpoint>>
    ELSE <<timeLastCheckpoint - genesisTime, heightLastCheckpoint>>

\* line 132: the double averageSpacing as the fraction <<num, den>>
AverageSpacing(targetSpacing, cs) == <<targetSpacing * cs[2] + cs[1], 2 * cs[2]>>

\* line 133, right-hand side: the double
\* medianHeight + (GetTime() - tipmediantime) / averageSpacing as a
\* fraction <<num, den>> with den > 0
RawEstimate(height, tipmediantime, heightLastCheckpoint, timeLastCheckpoint, genesisTime, targetSpacing, t) ==
  LET medianHeight == MedianHeight(height)
      avg == AverageSpacing(targetSpacing,
               CheckpointSpacing(medianHeight, tipmediantime, heightLastCheckpoint,
                                 timeLastCheckpoint, genesisTime))
      num == (t - tipmediantime) * avg[2]
      den == avg[1]
  IN IF den > 0 THEN <<medianHeight * den + num, den>>
                ELSE <<0 - (medianHeight * den + num), 0 - den>>

\* lines 118-135; t is the GetTime() of line 133
EstimateNetHeightInner(height, tipmediantime, heightLastCheckpoint, timeLastCheckpoint, genesisTime, targetSpacing, t) ==
  LET raw == RawEstimate(height, tipmediantime, heightLastCheckpoint,
                         timeLastCheckpoint, genesisTime, targetSpacing, t)
      nh == TruncDiv(raw[1], raw[2])
  IN TruncDiv(nh + 5, 10) * 10

\* printStats, lines 226-227: the node is in initial block download and the
\* network height is estimated
EstimateNetHeight ==
  /\ epc = "printStats"
  /\ estIBD
  /\ netheight' = EstimateNetHeightInner(estHeight, estTip, estCpHeight, estCpTime,
                                         GenesisTime, nPowTargetSpacing, estNow)
  /\ epc' = "downloadPercent"
  /\ UNCHANGED <<estHeight, estTip, estCpHeight, estCpTime, estNow, estIBD,
                 downloadPercent>>
  /\ UNCHANGED nonEstVars

\* printStats, line 228: int downloadPercent = height * 100 / netheight;
\* An integer division by zero is undefined: the thread is killed by a
\* signal, or goes on with some value (0 here).
DownloadPercent ==
  /\ epc = "downloadPercent"
  /\ \/ /\ netheight # 0
        /\ downloadPercent' = TruncDiv(estHeight * 100, netheight)
        /\ epc' = "printed"
     \/ /\ netheight = 0
        /\ downloadPercent' = 0
        /\ epc' \in {"printed", "killed"}
  /\ UNCHANGED <<estHeight, estTip, estCpHeight, estCpTime, estNow, estIBD,
                 netheight>>
  /\ UNCHANGED nonEstVars

\* printStats, line 238: not in initial block download, the height is printed
BlockHeight ==
  /\ epc = "printStats"
  /\ ~estIBD
  /\ epc' = "printed"
  /\ UNCHANGED <<estHeight, estTip, estCpHeight, estCpTime, estNow, estIBD,
                 netheight, downloadPercent>>
  /\ UNCHANGED nonEstVars

\* ------------------------------------------------------------ initial state
InitTimerVars ==
  /\ threads = 0 /\ start_time = 0 /\ total_time = 0
  /\ mtx = NoThread
  /\ tpc = [c \in TimerCallers |-> "idle"]
  /\ tret = [op |-> "none", val |-> 0]
  /\ solutionTargetChecks = 0
  /\ starts = 0 /\ effStops = 0 /\ activeTime = 0 /\ excessSeen = FALSE

InitSchedVars ==
  /\ spc = "top"
  /\ nNextRefresh = 0
  /\ interruptRequested = FALSE
  /\ loaded = FALSE
  /\ initMessage = ""
  /\ pendingTrigger = FALSE

InitMsgVars ==
  /\ messageBox = <<>>
  /\ msgLock = NoThread
  /\ nPosted = 0
  /\ wpc = [w \in Workers |-> "idle"]

InitReconVars ==
  /\ cs_main = NoThread /\ cs_metrics = NoThread /\ trackedLock = NoThread
  /\ trackedBlocks = <<>> /\ minedBlocks = 0
  /\ kpc = [k \in Miners |-> [pc |-> "idle", hash |-> ""]]
  /\ recorded = {}
  /\ it = 0 /\ tipHeight = 0
  /\ immature = 0 /\ mature = 0 /\ mined = 0 /\ orphaned = 0
  /\ erased = 0 /\ passKept = <<>>
  /\ mapBlockIndex = {} /\ chainActive = {} /\ chainHeight = 0

InitCounterVars ==
  /\ transactionsValidated = 0
  /\ cpc = [v \in Validators |-> "idle"]
  /\ entered = [v \in Validators |-> 0]
  /\ nCalls = 0 /\ overlapped = FALSE /\ lastGet = 0

InitEstVars ==
  /\ estHeight = 0 /\ estTip = 0 /\ estCpHeight = 1 /\ estCpTime = 0
  /\ estNow = 0 /\ estIBD = FALSE
  /\ epc = "idle"
  /\ netheight = 0 /\ downloadPercent = 0

InitPassVars ==
  /\ awaiting = {}
  /\ cs_vNodes = NoThread
  /\ passRecon = 0 /\ passLoaded = FALSE /\ initShown = FALSE

InitAuxVars ==
  /\ InitCounterVars /\ InitEstVars /\ InitPassVars

\* ------------------------------------------------------------ the timer alone
InitTimer ==
  /\ now = 0
  /\ InitTimerVars /\ InitSchedVars /\ InitMsgVars /\ InitReconVars /\ InitAuxVars
  /\ nRefresh = 1 /\ mining = TRUE

NextTimer ==
  \/ Tick
  \/ IncrementChecks
  \/ \E c \in TimerCallers, op \in TimerOps : TimerLock(c, op)
  \/ \E c \in TimerCallers : start(c)
  \/ \E c \in TimerCallers : stop(c)
  \/ \E c \in TimerCallers : running(c)
  \/ \E c \in TimerCallers : threadCount(c)
  \/ \E c \in TimerCallers : rate(c)

SpecTimer == InitTimer /\ [][NextTimer]_vars

\* ------------------------------- the screen thread, triggers and messages
InitSched ==
  /\ now = 0
  /\ InitTimerVars /\ InitSchedVars /\ InitMsgVars /\ InitReconVars /\ InitAuxVars
  /\ nRefresh \in 0..MaxRefresh
  /\ mining = FALSE

ScreenThread ==
  \/ RenderStart
  \/ PrintMetricsPlain
  \/ printMessageBox
  \/ printInitMessage
  \/ SetDeadline
  \/ WaitContinue
  \/ WaitExit
  \/ InterruptionPoint
  \/ MilliSleep

WorkerContinue(w) ==
  \/ PushBack(w)
  \/ Trim(w)
  \/ TriggerWrite(w)
  \/ TriggerReturn(w)

NextSched ==
  \/ Tick
  \/ Interrupt
  \/ ScreenThread
  \/ \E w \in Workers : MessageBoxEnter(w)
  \/ \E w \in Workers : TriggerRefreshCall(w)
  \/ \E w \in Workers : WorkerContinue(w)

SpecSched == InitSched /\ [][NextSched]_vars

\* The screen thread and every worker inside a call keep being scheduled,
\* and time passes.
SpecSchedFair ==
  /\ SpecSched
  /\ WF_vars(ScreenThread)
  /\ \A w \in Workers : WF_vars(WorkerContinue(w))
  /\ WF_vars(Tick)

\* ---------------------------------------- mining, the chain and the passes
\* The node mines; the screen refreshes without waiting
\* (-metricsrefreshtime=0), so the wait loop is never entered.
InitRecon ==
  /\ now = 0
  /\ InitTimerVars /\ InitSchedVars /\ InitMsgVars /\ InitReconVars /\ InitAuxVars
  /\ nRefresh = 0
  /\ mining = TRUE

NextRecon ==
  \/ RenderStart
  \/ PrintMetricsPlain
  \/ ReconLockMain
  \/ ReconLockMetrics
  \/ ReconSynchronize
  \/ ReconKeep
  \/ ReconErase
  \/ ReconTally
  \/ ReconReturn
  \/ printMessageBox
  \/ printInitMessage
  \/ SetDeadline
  \/ WaitExit
  \/ metrics_InitMessage("Done loading")
  \/ \E k \in Miners, h \in Hashes : TrackEnter(k, h)
  \/ \E k \in Miners : TrackIncrement(k)
  \/ \E k \in Miners : TrackPushBack(k)
  \/ \E h \in Hashes : AddToBlockIndex(h)
  \/ \E h \in Hashes : ConnectBlock(h)
  \/ \E h \in Hashes : DisconnectBlock(h)
  \/ ConnectForeignTip

SpecRecon == InitRecon /\ [][NextRecon]_vars

\* ------------------------------------------- the screen thread's alternation
\* The screen thread, the clock, its interruption, a thread that posts up
\* to MaxWaitPosts messages and a thread that calls TriggerRefresh; every
\* thread that can take a step eventually takes one, and
\* the clock advances up to MaxTime.
NextWait ==
  \/ Tick
  \/ Interrupt
  \/ ScreenThread
  \/ nPosted < MaxWaitPosts /\ MessageBoxEnter("w1")
  \/ TriggerRefreshCall("w2")
  \/ \E w \in Workers : WorkerContinue(w)

SpecWaitFair ==
  /\ InitSched /\ [][NextWait]_vars
  /\ WF_vars(ScreenThread)
  /\ \A w \in Workers : WF_vars(WorkerContinue(w))
  /\ WF_vars(Tick)

\* ------------------------------------------------------ printStats' estimate
CheckpointHeights == {1, 5, 50}
ObservedSpacings == {100, 150, 200}

\* the time of a block at the given height when the blocks up to the last
\* checkpoint came cpSpacing apart and the blocks after it spacing apart
BlockTime(height, cpHeight, cpSpacing, spacing) ==
  IF height > cpHeight
    THEN GenesisTime + cpHeight * cpSpacing + (height - cpHeight) * spacing
    ELSE GenesisTime + height * cpSpacing

\* any local height, checkpoint and observed spacing, a tip whose median
\* time is the time of the block at the median height, and a clock that is
\* behind or ahead of it
InitEstimate ==
  /\ now = 0
  /\ InitTimerVars /\ InitSchedVars /\ InitMsgVars /\ InitReconVars /\ InitCounterVars
  /\ InitPassVars
  /\ nRefresh = 1 /\ mining = FALSE
  /\ estHeight \in (0 .. MaxLocalHeight) \cup {100}
  /\ estCpHeight \in CheckpointHeights
  /\ \E cpSpacing \in ObservedSpacings, spacing \in ObservedSpacings :
       /\ estCpTime = GenesisTime + estCpHeight * cpSpacing
       /\ estTip = BlockTime(MedianHeight(estHeight), estCpHeight, cpSpacing, spacing)
  /\ estNow \in {estTip + k * nPowTargetSpacing : k \in (0 - MaxTipAhead) .. MaxTipLag}
  /\ estIBD \in BOOLEAN
  /\ epc = "printStats"
  /\ netheight = 0 /\ downloadPercent = 0

NextEstimate ==
  \/ EstimateNetHeight
  \/ DownloadPercent
  \/ BlockHeight

SpecEstimate == InitEstimate /\ [][NextEstimate]_vars

\* ------------------------------------------------- the whole render pass
\* The screen thread with every step of its pass, lines 465-511.
ScreenPass ==
  \/ RenderTop
  \/ PrintStatsLockMain
  \/ PrintStatsLockNodes
  \/ PrintStatsRead
  \/ PrintStatsRate
  \/ PrintStatsRunning
  \/ PrintMiningStatusThreads
  \/ PrintMiningStatusNodes
  \/ PrintMiningStatusNotMining
  \/ PrintMetricsPlain
  \/ ReconLockMain
  \/ ReconLockMetrics
  \/ ReconSynchronize
  \/ ReconKeep
  \/ ReconErase
  \/ ReconTally
  \/ ReconReturn
  \/ printMessageBox
  \/ printInitMessage
  \/ SetDeadline

\* lines 512-515
ScreenWait ==
  \/ WaitContinue
  \/ WaitExit
  \/ InterruptionPoint
  \/ MilliSleep

InitScreen ==
  /\ now = 0
  /\ InitTimerVars /\ InitSchedVars /\ InitMsgVars /\ InitReconVars /\ InitAuxVars
  /\ nRefresh = 1 /\ mining \in BOOLEAN

\* The pass, the interruption of the screen thread, the initialisation
\* setting the init message, a miner tracking blocks A and B while the chain
\* takes them up, and a caller of TriggerRefresh.  The clock stands still:
\* the wait of lines 512-515 ends when TriggerRefresh makes the deadline due.
NextScreen ==
  \/ ScreenPass
  \/ ScreenWait
  \/ Interrupt
  \/ \E m \in InitMessages : metrics_InitMessage(m)
  \/ TriggerRefreshCall("w2")
  \/ TriggerWrite("w2")
  \/ TriggerReturn("w2")
  \/ \E h \in {"A", "B"} : TrackEnter("k1", h)
  \/ TrackIncrement("k1")
  \/ TrackPushBack("k1")
  \/ \E h \in {"A", "B"} : AddToBlockIndex(h)
  \/ \E h \in {"A", "B"} : ConnectBlock(h)

SpecScreen == InitScreen /\ [][NextScreen]_vars

\* The pass with -metricsrefreshtime=0, and one thread of each kind calling
\* into the metrics: the initialisation, a miner tracking block A, a mining
\* thread that starts the timer once and stops it, and a thread that posts
\* messages and so calls TriggerRefresh.
InitLocks ==
  /\ now = 0
  /\ InitTimerVars /\ InitSchedVars /\ InitMsgVars /\ InitReconVars /\ InitAuxVars
  /\ nRefresh = 0 /\ mining \in BOOLEAN

NextLocks ==
  \/ ScreenPass
  \/ WaitExit
  \/ metrics_InitMessage("Done loading")
  \/ nPosted < MaxWaitPosts /\ MessageBoxEnter("w1")
  \/ WorkerContinue("w1")
  \/ TrackEnter("k1", "A")
  \/ TrackIncrement("k1")
  \/ TrackPushBack("k1")
  \/ AddToBlockIndex("A")
  \/ ConnectBlock("A")
  \/ starts = 0 /\ TimerLock("m1", "start")
  \/ TimerLock("m1", "stop")
  \/ start("m1")
  \/ stop("m1")

SpecLocks == InitLocks /\ [][NextLocks]_vars

\* ---------------------------------------------------------- a counter alone
\* validating threads incrementing transactionsValidated while it is read
InitCounter ==
  /\ now = 0
  /\ InitTimerVars /\ InitSchedVars /\ InitMsgVars /\ InitReconVars /\ InitAuxVars
  /\ nRefresh = 1 /\ mining = FALSE

NextCounter ==
  \/ \E v \in Validators : CounterCall(v)
  \/ \E v \in Validators : CounterIncrement(v)
  \/ CounterGet

SpecCounter == InitCounter /\ [][NextCounter]_vars

\* ------------------------------------- refresh and message box properties
\* C1: a TriggerRefresh() at any moment makes the screen thread start a
\* render pass without waiting out the refresh interval: from the write of
\* the deadline by TriggerRefresh until the next pass starts, the deadline
\* stays due (it is not replaced by now + nRefresh).
C1_TriggerDeadlineStands ==
  pendingTrigger => nNextRefresh <= now

\* C2: once the interruption of the screen thread is requested, the thread
\* eventually reaches Cancelled, whatever the refresh interval and the
\* TriggerRefresh calls.
C2_InterruptLeadsToCancelled ==
  interruptRequested ~> (spc = "Cancelled")

\* the last min(n, MessageBoxMax) of the messages 1..n, oldest first
LastPosted(n) ==
  LET k == IF n < MessageBoxMax THEN n ELSE MessageBoxMax
  IN [i \in 1..k |-> n - k + i]

\* C3: whenever no post is in progress, the message box holds the last
\* min(n, 5) of the n messages posted so far, in posting order.
C3_BoxHoldsMostRecent ==
  msgLock = NoThread => messageBox = LastPosted(nPosted)

\* C4: whenever the message box's lock is free, the box holds at most 5
\* entries.
C4_BoxAtMostFive ==
  msgLock = NoThread => Len(messageBox) <= MessageBoxMax

\* more than 5 messages were posted and the lock is free again
C4_Witness ==
  msgLock = NoThread /\ nPosted > MessageBoxMax /\ Len(messageBox) = MessageBoxMax

\* ------------------------------------------------ reconciliation properties
\* the step that ends a reconciliation pass
TallyStep == spc = "loop" /\ spc' = "print_mined"

\* the block is in the chain index and on the best chain
IndexedOnBestChain(h) == h \in mapBlockIndex /\ h \in chainActive

\* the block's depth under the tip is below the maturity threshold
BelowMaturity(h) == chainHeight - HeightOf(h) < COINBASE_MATURITY

RECURSIVE SubsidyOf(_, _)
\* the subsidies of the blocks of list whose BelowMaturity is wanted, summed
SubsidyOf(list, wanted) ==
  IF list = <<>> THEN 0
  ELSE (IF BelowMaturity(Head(list)) = wanted
          THEN GetBlockSubsidy(HeightOf(Head(list))) ELSE 0)
       + SubsidyOf(Tail(list), wanted)

\* C5: a pass leaves exactly the tracked blocks that are in the index and on
\* the best chain, in their order; each one's subsidy is in immature when
\* tip height - block height is below the maturity threshold and in mature
\* otherwise, and the totals hold nothing else.
C5_PassKeepsBestChainBlocks ==
  [][TallyStep =>
       /\ trackedBlocks' = SelectSeq(passKept, IndexedOnBestChain)
       /\ immature' = SubsidyOf(trackedBlocks', TRUE)
       /\ mature' = SubsidyOf(trackedBlocks', FALSE)]_vars

\* a pass found A, B and C tracked and has kept the mature A and the
\* immature B
C5_Witness ==
  /\ spc = "print_mined"
  /\ Len(passKept) = 3
  /\ trackedBlocks = <<"A", "B">>
  /\ mature = GetBlockSubsidy(1) /\ immature = GetBlockSubsidy(2)

\* C6: at the end of every pass orphaned is the number of completed
\* TrackMinedBlock calls minus the size of the list, which is the number of
\* entries erased so far: never negative, and never decreasing, as the
\* number erased never decreases.
C6_OrphanedIsCallsMinusTracked ==
  /\ [][TallyStep =>
          /\ orphaned' = Cardinality(recorded) - Len(trackedBlocks')
          /\ orphaned' = erased'
          /\ orphaned' >= 0]_vars
  /\ [][erased' >= erased]_vars

\* a pass has ended with three blocks mined, two of them erased
C6_Witness ==
  spc = "print_mined" /\ mined = 3 /\ orphaned = 2 /\ Len(trackedBlocks) = 1

\* C7: a block is not erased merely for not being on the best chain yet: at
\* the end of every pass, every block TrackMinedBlock recorded that is on
\* the best chain is in the tracked list.
C7_ConfirmedBlockStaysTracked ==
  [][TallyStep =>
       \A h \in recorded :
         IndexedOnBestChain(h) =>
           \E i \in 1..Len(trackedBlocks') : trackedBlocks'[i] = h]_vars

\* ------------------------------------------------- AtomicTimer properties
\* start() calls not yet matched by an effective stop()
Unmatched == starts - effStops

\* stop() by caller c returns in this step
StopReturns(c) == tpc[c] = "stop" /\ tpc'[c] = "idle"

\* C8: for every interleaving of start() and stop(), threads (what
\* threadCount() returns) is the number of start calls not yet matched by an
\* effective stop and never below 0, and running() returns true iff that
\* number is greater than 0.
C8_CountIsUnmatchedStarts ==
  /\ [](threads = Unmatched /\ threads >= 0)
  /\ [][\A c \in TimerCallers :
          /\ (tpc[c] = "running" /\ tpc'[c] = "idle")
               => tret'.val = (Unmatched > 0)
          /\ (tpc[c] = "threadCount" /\ tpc'[c] = "idle")
               => tret'.val = Unmatched]_vars

\* two starts are unmatched after an earlier start was matched, and
\* running() has answered true
C8_Witness ==
  /\ starts = 3 /\ effStops = 1 /\ threads = 2
  /\ tret.op = "running" /\ tret.val

\* C9: total_time never decreases and changes only in a stop() that takes
\* threads from 1 to 0, where it grows by now - start_time; and it counts
\* every second with an unmatched start exactly once, however many callers
\* overlap.
C9_TotalTimeGrowsOnLastStop ==
  /\ [][/\ total_time' >= total_time
        /\ total_time' # total_time =>
             \E c \in TimerCallers :
               /\ StopReturns(c)
               /\ threads = 1 /\ threads' = 0
               /\ total_time' = total_time + (now - start_time)]_vars
  /\ [](total_time + (IF threads > 0 THEN now - start_time ELSE 0) = activeTime)

\* an interval has been accumulated and two callers overlap in an open one
C9_Witness ==
  total_time > 0 /\ threads = 2 /\ now > start_time

\* C10: stop() with the active count at 0 changes neither the count, nor
\* the accumulated duration, nor the interval start.
C10_ExcessStopIsNoOp ==
  [][\A c \in TimerCallers :
       (StopReturns(c) /\ threads = 0) =>
          /\ threads' = 0
          /\ total_time' = total_time
          /\ start_time' = start_time]_vars

\* an excess stop() has returned, and a start() after time has passed
\* opened an interval at the current second
C10_Witness ==
  excessSeen /\ threads = 1 /\ total_time > 0 /\ start_time = now

\* ---------------------------------------------------------------- C11
RateReturns(c) == tpc[c] = "rate" /\ tpc'[c] = "idle"

\* C11: rate() divides the counter by total_time plus, while the timer is
\* running, the seconds since start_time, and returns 0 when that duration
\* is not positive; so a running timer whose interval opened before now
\* gives a non-zero rate for a non-zero counter, with no stop() needed.
C11_RateIncludesOpenInterval ==
  [][\A c \in TimerCallers :
       RateReturns(c) =>
         LET duration == total_time + (IF threads > 0 THEN now - start_time ELSE 0)
         IN /\ duration > 0 => tret'.val = <<solutionTargetChecks, duration>>
            /\ ~(duration > 0) => tret'.val = <<0, 1>>
            /\ (threads > 0 /\ now > start_time /\ solutionTargetChecks > 0)
                 => tret'.val[1] > 0]_vars

\* a rate() call returned a non-zero rate before any stop() took effect
C11_Witness ==
  /\ tret.op = "rate"
  /\ tret.val[1] > 0
  /\ effStops = 0
  /\ threads > 0


\* ---------------------------------------------------------------- C12
InsideIncrement == {v \in Validators : cpc[v] = "increment"}

\* C12: whatever the interleaving of the increment() calls of several
\* threads, the counter holds the number of calls that have taken effect,
\* so it equals the number of calls once all have returned, and a get()
\* never returns less than the get() before it.
C12_NoLostIncrement ==
  /\ [](transactionsValidated = nCalls - Cardinality(InsideIncrement))
  /\ [](InsideIncrement = {} => transactionsValidated = nCalls)
  /\ [][lastGet' >= lastGet]_vars

\* all calls have returned, some of them had overlapped, and get() read the
\* final value
C12_Witness ==
  /\ InsideIncrement = {}
  /\ nCalls = MaxIncrements
  /\ overlapped
  /\ lastGet = transactionsValidated


\* ---------------------------------------------------------------- C13
\* the estimate before rounding, as a fraction <<num, den>> with den > 0
EstimateBeforeRounding ==
  RawEstimate(estHeight, estTip, estCpHeight, estCpTime, GenesisTime,
              nPowTargetSpacing, estNow)

\* C13: the network height estimate is a multiple of 10, and it is the
\* multiple of 10 nearest to h = medianHeight + (now - tipmediantime) /
\* averageSpacing: it is at most 5 away from h.
C13_EstimateIsNearestTen ==
  epc = "downloadPercent" =>
    /\ netheight % 10 = 0
    /\ LET h == EstimateBeforeRounding
       IN Abs(netheight * h[2] - h[1]) <= 5 * h[2]

\* ---------------------------------------------------------------- C19
\* C19: where printStats computes height * 100 / netheight, for a height of
\* at least 0 and a tip whose median time is not later than GetTime(), the
\* divisor netheight is not zero.
C19_PercentDivisorNonZero ==
  (epc = "downloadPercent" /\ estHeight >= 0 /\ estTip <= estNow)
    => netheight # 0


\* ---------------------------------------------------------------- C14
TriggerReturns(w) == wpc[w] = "trigger_sleep" /\ wpc'[w] = "idle"

\* C14: when TriggerRefresh() returns, the screen thread has left its wait
\* loop and started a render pass after the caller's write of the deadline.
C14_RefreshStartedOnReturn ==
  [][\A w \in Workers : TriggerReturns(w) => w \notin awaiting]_vars


\* ---------------------------------------------------------------- C18
\* C18: a thread that posts a message has released the message box's guard
\* before it sleeps in TriggerRefresh: no thread sleeps holding the guard.
C18_NoSleepHoldingGuard ==
  \A w \in Workers : wpc[w] = "trigger_sleep" => msgLock # w


\* ---------------------------------------------------------------- C16
\* the screen thread is between the top of its loop and line 511
Rendering ==
  spc \in {"top", "printStats", "printStats_cs_vNodes", "printStats_read",
           "GetLocalSolPS", "running", "printMiningStatus",
           "printMiningStatus_cs_vNodes", "printMetrics", "lock_cs_metrics",
           "synchronize", "loop", "print_mined", "printMessageBox",
           "printInitMessage", "setDeadline"}

\* the screen thread is in the wait loop of lines 512-515
Idle == spc \in {"waitCheck", "interruption_point", "MilliSleep"}

LockNames == {"cs_main", "cs_vNodes", "cs_metrics", "trackedBlocks", "messageBox", "mtx"}

HolderOf(l) ==
  CASE l = "cs_main" -> cs_main
    [] l = "cs_vNodes" -> cs_vNodes
    [] l = "cs_metrics" -> cs_metrics
    [] l = "trackedBlocks" -> trackedLock
    [] l = "messageBox" -> msgLock
    [] l = "mtx" -> mtx

\* the locks a thread holds
Holds(t) == {l \in LockNames : HolderOf(l) = t}

\* the locks the screen thread holds
ScreenHolds == Holds(Screen)

\* the screen thread is inside the reconciliation of lines 334-361
Reconciling == spc \in {"lock_cs_metrics", "synchronize", "loop", "print_mined"}

PassEnds == spc = "setDeadline" /\ spc' = "waitCheck"

\* printInitMessage returns
InitMessagePrinted == spc = "printInitMessage" /\ spc' = "setDeadline"

AllThreads == {Screen} \cup Miners \cup Workers \cup TimerCallers

\* the global order: cs_main, then cs_vNodes or cs_metrics, then the guard
\* of a field
LockRank(l) ==
  CASE l = "cs_main" -> 1
    [] l \in {"cs_vNodes", "cs_metrics"} -> 2
    [] OTHER -> 3

\* the lock the next step of a thread has to take, "none" if it takes none
Wants(t) ==
  IF t = Screen
    THEN CASE spc = "printStats" -> "cs_main"
           [] spc \in {"printStats_cs_vNodes", "printMiningStatus_cs_vNodes"} -> "cs_vNodes"
           [] spc \in {"GetLocalSolPS", "running"} -> "mtx"
           [] spc = "printMiningStatus" /\ mining -> "mtx"
           [] spc = "printMetrics" /\ mining /\ loaded -> PrintMetricsLocks[1]
           [] spc = "lock_cs_metrics" -> PrintMetricsLocks[2]
           [] spc = "synchronize" -> "trackedBlocks"
           [] spc = "printMessageBox" -> "messageBox"
           [] OTHER -> "none"
    ELSE IF t \in Miners /\ kpc[t].pc = "push_back" THEN "trackedBlocks"
    ELSE "none"

\* the thread that holds the lock a thread has to take next, if any
WaitsFor(t) ==
  IF t # NoThread /\ Wants(t) # "none" /\ HolderOf(Wants(t)) # t
    THEN HolderOf(Wants(t))
    ELSE NoThread

RECURSIVE WaitsForChain(_, _)
WaitsForChain(t, n) ==
  IF n = 0 \/ t = NoThread THEN t ELSE WaitsForChain(WaitsFor(t), n - 1)

\* a thread is inside a call into the metrics (the screen thread: not cancelled)
Busy(t) ==
  \/ t = Screen /\ spc # "Cancelled"
  \/ t \in Miners /\ kpc[t].pc # "idle"
  \/ t \in Workers /\ wpc[t] # "idle"
  \/ t \in TimerCallers /\ tpc[t] # "idle"

\* a thread can take its next step
CanStep(t) ==
  \/ t = Screen /\ ENABLED (ScreenPass \/ ScreenWait)
  \/ t \in Miners /\ ENABLED (TrackIncrement(t) \/ TrackPushBack(t))
  \/ t \in Workers /\ ENABLED WorkerContinue(t)
  \/ t \in TimerCallers /\ ENABLED (start(t) \/ stop(t))

\* C17: every lock a thread takes ranks above every lock it already holds
\* (cs_main first, then cs_vNodes or cs_metrics, then a field's guard), so
\* cs_main is never taken by a thread that holds cs_metrics or a guard; and
\* no threads wait for each other in a cycle: the holder of a lock that a
\* thread waits for can step, and so can every thread inside a call that
\* waits for no lock.
C17_OneLockOrderNoDeadlock ==
  /\ [][\A l \in LockNames :
          (HolderOf(l)' # HolderOf(l) /\ HolderOf(l)' # NoThread) =>
            \A h \in LockNames :
              HolderOf(h) = HolderOf(l)' => LockRank(h) < LockRank(l)]_vars
  /\ [](\A t \in AllThreads :
           WaitsFor(t) # NoThread =>
             /\ \A n \in 1 .. Cardinality(AllThreads) : WaitsForChain(t, n) # t
             /\ CanStep(WaitsFor(t)))
  /\ [](\A t \in AllThreads :
           (Busy(t) /\ WaitsFor(t) = NoThread) => CanStep(t))

\* the screen thread holds cs_main and waits for cs_metrics, which the miner
\* holds, while the poster holds the message box and a mining thread the
\* timer
C17_Witness ==
  /\ cs_main = Screen
  /\ WaitsFor(Screen) = "k1"
  /\ msgLock = "w1"
  /\ mtx = "m1"

====
